---- MODULE Spec2Model ----
(***************************************************************************)
(* A model of Sources/CTomlPlusPlus/ctoml.cpp: the arena (struct           *)
(* CTomlTable), the tree converter (convert_table, convert_array,          *)
(* convert_node) and the two entry points ctoml_parse and                  *)
(* ctoml_free_result.  The document parser (toml::parse) is external: it   *)
(* is modelled by what it hands back, a tree of typed nodes or a parse     *)
(* error with a source position.                                           *)
(*                                                                         *)
(* Memory is explicit.  heap is the sequence of every block obtained from  *)
(* the allocator; a pointer is an index into heap and NULL is 0.  A block  *)
(* records how many times it has been released (frees).                    *)
(***************************************************************************)
EXTENDS Integers, Sequences, FiniteSets, TLC

VARIABLES
    pc,         \* position of the caller: "NotStarted", "Converting",
                \* "CatchParseError", "CatchException", "Returned", "Escaped"
    result,     \* the caller's CTomlParseResult
    storage,    \* the members of the CTomlTable that result.handle points to
    heap,       \* every block obtained from the allocator, in allocation order
    stack,      \* the activation records of convert_table / convert_array
    parsed,     \* what toml::parse produced for the input
    exc,        \* the exception in flight, if any
    faults,     \* number of allocation failures that have happened
    frees       \* number of ctoml_free_result calls: on the result, on NULL

vars == <<pc, result, storage, heap, stack, parsed, exc, faults, frees>>

-----------------------------------------------------------------------------
(* Bounds of the model. *)

\* allocation failures that may happen during one ctoml_parse
MaxFaults == 1
\* ctoml_free_result calls on the same result object
MaxTeardowns == 3
\* ctoml_free_result(NULL) calls
MaxNullCalls == 1
\* largest line / column the parser reports with a parse error
MaxPos == 2

-----------------------------------------------------------------------------
(* ctoml.h: CTomlNodeType *)

CTOML_NONE == 0
CTOML_STRING == 1
CTOML_INTEGER == 2
CTOML_FLOAT == 3
CTOML_BOOLEAN == 4
CTOML_DATE == 5
CTOML_TIME == 6
CTOML_DATETIME == 7
CTOML_ARRAY == 8
CTOML_TABLE == 9

NULL == 0

\* What an object holds that was never assigned (CTomlNode result; malloc'd
\* storage): either all-zero bytes or something else.
RawZero == [raw |-> "zero"]
RawGarbage == [raw |-> "garbage"]
Indeterminate == {RawZero, RawGarbage}

\* A CTomlNode whose bytes are all zero is a none node with zeroed data.
ZeroNode == [type |-> CTOML_NONE, data |-> RawZero]
GarbageNode == [type |-> -1, data |-> RawGarbage]
ZeroString == [data |-> NULL, length |-> 0]
GarbageString == [data |-> -1, length |-> -1]

-----------------------------------------------------------------------------
(* The external document tree (toml::node and its subclasses).  A byte is  *)
(* a number, 0 the zero byte.  An array element that arr.get(i) does not   *)
(* find is "absent"; a node that answers no is_*() query is "unknown".     *)

NString(b) == [t |-> "string", v |-> b]
NInteger(n) == [t |-> "integer", v |-> n]
NFloat(n) == [t |-> "float", v |-> n]
NBoolean(b) == [t |-> "boolean", v |-> b]
NDate(y, m, d) == [t |-> "date", v |-> [year |-> y, month |-> m, day |-> d]]
NTime(h, m, s, n) ==
    [t |-> "time", v |-> [hour |-> h, minute |-> m, second |-> s, nanosecond |-> n]]
NDateTime(d, tm, hasOff, off) ==
    [t |-> "date_time",
     v |-> [date |-> d.v, time |-> tm.v, has_offset |-> hasOff, minutes |-> off]]
NArray(es) == [t |-> "array", v |-> es]
NTable(es) == [t |-> "table", v |-> es]
Entry(k, n) == [k |-> k, v |-> n]
Absent == [t |-> "absent", v |-> 0]
Unknown == [t |-> "unknown", v |-> 0]

\* Root tables the parser can hand back; entries in the table's iteration order.
Documents ==
    { NTable(<<>>),
      NTable(<<Entry(<<97, 0, 98>>, NString(<<120, 0, 121>>)), Entry(<<110>>, NInteger(7))>>),
      NTable(<<Entry(<<122>>, NArray(<<NInteger(1), Absent, NString(<<>>)>>)),
            Entry(<<97>>, NTable(<<Entry(<<107>>, NBoolean(TRUE))>>))>>),
      NTable(<<Entry(<<117>>, Unknown),
            Entry(<<100>>, NDateTime(NDate(1979, 5, 27), NTime(7, 32, 0, 5), TRUE, -480)),
            Entry(<<102>>, NFloat(3))>>),
      NTable(<<Entry(<<108>>, NArray(<<NTable(<<Entry(<<120>>, NDate(2024, 1, 2))>>),
                                 NArray(<<>>),
                                 NTable(<<>>)>>)),
            Entry(<<116>>, NTime(23, 59, 58, 0)),
            Entry(<<111>>, NDateTime(NDate(2000, 2, 29), NTime(0, 0, 0, 0), FALSE, 0))>>) }

\* err.description() of a toml::parse_error: never empty
Descriptions == { <<69, 114, 114>> }

ParseOutcomes ==
    { [kind |-> "table", table |-> d] : d \in Documents }
    \cup { [kind |-> "parse_error", description |-> d, line |-> l, column |-> c] :
             d \in Descriptions, l \in 1..MaxPos, c \in 1..MaxPos }

NotParsed == [kind |-> "none"]

-----------------------------------------------------------------------------
(* The allocator. *)

Block(kind, slots, bytes) ==
    [kind |-> kind, slots |-> slots, written |-> {}, bytes |-> bytes, frees |-> 0]

\* std::malloc(count * sizeof(T)): count slots whose contents are whatever the
\* allocator left there (fill)
Malloc(h, kind, count, fill) ==
    Append(h, Block(kind, [j \in 1..count |-> fill], <<>>))

\* std::free / operator delete of one block
Free(h, p) == [h EXCEPT ![p].frees = @ + 1]

RECURSIVE FreeAll(_, _)
FreeAll(h, ps) ==
    IF ps = <<>> THEN h ELSE FreeAll(Free(h, Head(ps)), Tail(ps))

Live(h, p) == p \in 1..Len(h) /\ h[p].frees = 0

-----------------------------------------------------------------------------
(* struct CTomlTable: the arena. *)

\* new CTomlTable(): no strings, no tracked allocations, an empty message
\* held inside the object itself
NewStorage ==
    [strings |-> <<>>, allocations |-> <<>>, capacity |-> 0,
     error_message |-> [text |-> <<>>, buf |-> NULL]]

\* allocations.push_back needs new storage when the vector is full; the
\* vector then doubles
NeedsGrowth(s) == Len(s.allocations) = s.capacity

Grown(s) ==
    IF NeedsGrowth(s)
    THEN (IF s.capacity = 0 THEN 1 ELSE 2 * s.capacity)
    ELSE s.capacity

\* allocations.push_back(mem)
Track(s, mem) ==
    [s EXCEPT !.allocations = Append(@, mem), !.capacity = Grown(s)]

\* the bytes c_str() points at: the characters and the terminator
CStr(bytes) == bytes \o <<0>>

\* store_string over a contiguous, growing container of strings: adding one
\* moves those already stored
store_string_relocating(h, s, bytes) ==
    LET n == Len(s.strings)
        moved == [k \in 1..n |-> Block("string", <<>>, h[s.strings[k]].bytes)]
    IN  [heap |-> (FreeAll(h, s.strings) \o moved)
                     \o <<Block("string", <<>>, CStr(bytes))>>,
         storage |-> [s EXCEPT !.strings = [k \in 1..(n + 1) |-> Len(h) + k]],
         str |-> [data |-> Len(h) + n + 1, length |-> Len(bytes)]]

\* store_string: strings.push_back(s) makes a new list element; the ones
\* already there stay where they are.  Returns the CTomlString.
store_string(h, s, bytes) ==
    LET p == Len(h) + 1
    IN  [heap |-> Append(h, Block("string", <<>>, CStr(bytes))),
         storage |-> [s EXCEPT !.strings = Append(@, p)],
         str |-> [data |-> p, length |-> Len(bytes)]]

\* alloc_nodes / alloc_keys.  fault says which allocation fails, if any:
\* "malloc" (std::malloc returns null) or "push_back" (the vector cannot grow).
Alloc(h, s, kind, count, fill, fault) ==
    IF count = 0
    THEN [heap |-> h, storage |-> s, mem |-> NULL, throws |-> FALSE]
    ELSE IF fault = "malloc"
    THEN [heap |-> h, storage |-> s, mem |-> NULL, throws |-> TRUE]
    ELSE LET mem == Len(h) + 1
             h2 == Malloc(h, kind, count, fill)
         IN  IF fault = "push_back"
             THEN [heap |-> h2, storage |-> s, mem |-> mem, throws |-> TRUE]
             ELSE [heap |-> h2, storage |-> Track(s, mem), mem |-> mem,
                   throws |-> FALSE]

alloc_nodes(h, s, count, fill, fault) == Alloc(h, s, "nodes", count, fill, fault)

\* alloc_keys that does not record the block in allocations
alloc_keys_untracked(h, s, count, fill, fault) ==
    [Alloc(h, s, "keys", count, fill, fault) EXCEPT !.storage = s]

alloc_keys(h, s, count, fill, fault) == Alloc(h, s, "keys", count, fill, fault)

\* the allocation failures that can happen in alloc_nodes / alloc_keys
AllocFaults(s, count) ==
    {"none"} \cup
    (IF count > 0 /\ faults < MaxFaults
     THEN {"malloc"} \cup (IF NeedsGrowth(s) THEN {"push_back"} ELSE {})
     ELSE {})

\* ~CTomlTable and delete: every tracked allocation, then the members (the
\* message's buffer when it has one of its own, the list's strings), then the
\* object
DeleteTable(h, s, handle) ==
    LET h1 == FreeAll(h, s.allocations)
        h2 == IF s.error_message.buf \notin {NULL, handle}
              THEN Free(h1, s.error_message.buf) ELSE h1
        h3 == FreeAll(h2, s.strings)
    IN  Free(h3, handle)

\* a slot of a node array or key array is assigned
WriteSlot(h, p, j, v) ==
    [h EXCEPT ![p].slots[j] = v, ![p].written = @ \cup {j}]

-----------------------------------------------------------------------------
(* The tree converter. *)

\* convert_node without result.type = CTOML_NONE up front: the tag of a node
\* that matches no branch is never assigned
convert_scalar_untagged(node, raw) ==
    CASE node.t = "integer" ->
           [type |-> CTOML_INTEGER, data |-> [integer_value |-> node.v]]
      [] node.t = "float" ->
           [type |-> CTOML_FLOAT, data |-> [float_value |-> node.v]]
      [] node.t = "boolean" ->
           [type |-> CTOML_BOOLEAN, data |-> [boolean_value |-> node.v]]
      [] node.t = "date" ->
           [type |-> CTOML_DATE, data |-> [date_value |-> node.v]]
      [] node.t = "time" ->
           [type |-> CTOML_TIME, data |-> [time_value |-> node.v]]
      [] node.t = "date_time" ->
           [type |-> CTOML_DATETIME,
            data |-> [datetime_value |->
                        [date |-> node.v.date, time |-> node.v.time,
                         has_offset |-> node.v.has_offset,
                         offset_minutes |->
                            IF node.v.has_offset THEN node.v.minutes ELSE 0]]]
      [] OTHER -> [type |-> -1, data |-> raw]

\* convert_node on a node that is neither string nor array nor table; raw is
\* what the unassigned data of a none node happens to hold
convert_scalar(node, raw) ==
    CASE node.t = "integer" ->
           [type |-> CTOML_INTEGER, data |-> [integer_value |-> node.v]]
      [] node.t = "float" ->
           [type |-> CTOML_FLOAT, data |-> [float_value |-> node.v]]
      [] node.t = "boolean" ->
           [type |-> CTOML_BOOLEAN, data |-> [boolean_value |-> node.v]]
      [] node.t = "date" ->
           [type |-> CTOML_DATE,
            data |-> [date_value |-> [year |-> node.v.year, month |-> node.v.month,
                                      day |-> node.v.day]]]
      [] node.t = "time" ->
           [type |-> CTOML_TIME,
            data |-> [time_value |-> [hour |-> node.v.hour, minute |-> node.v.minute,
                                      second |-> node.v.second,
                                      nanosecond |-> node.v.nanosecond]]]
      [] node.t = "date_time" ->
           [type |-> CTOML_DATETIME,
            data |-> [datetime_value |->
                        [date |-> node.v.date, time |-> node.v.time,
                         has_offset |-> node.v.has_offset,
                         offset_minutes |->
                            IF node.v.has_offset THEN node.v.minutes ELSE 0]]]
      [] OTHER -> [type |-> CTOML_NONE, data |-> raw]

\* convert_node's string branch, given the stored string
string_node(str) == [type |-> CTOML_STRING, data |-> [string_value |-> str]]

\* convert_array: CTomlNode none_node{}; none_node.type = CTOML_NONE
none_node == [type |-> CTOML_NONE, data |-> RawZero]

\* the activation record of convert_table(table) / convert_array(arr) on entry
TableFrame(table) ==
    [kind |-> "table", src |-> table.v, count |-> Len(table.v), i |-> 0,
     step |-> "alloc_keys", keys |-> NULL, values |-> NULL]

ArrayFrame(arr) ==
    [kind |-> "array", src |-> arr.v, count |-> Len(arr.v), i |-> 0,
     step |-> "alloc_values", keys |-> NULL, values |-> NULL]

\* the CTomlNode convert_table / convert_array returns
FrameResult(f) ==
    IF f.kind = "table"
    THEN [type |-> CTOML_TABLE,
          data |-> [table_value |->
                      [keys |-> f.keys, values |-> f.values, count |-> f.count]]]
    ELSE [type |-> CTOML_ARRAY,
          data |-> [array_value |-> [elements |-> f.values, count |-> f.count]]]

\* where a frame continues once a value slot is filled: the table loop
\* stores the next key, the array loop converts the next element
LoopStep(f) == IF f.kind = "table" THEN "key" ELSE "value"

\* the loop filling the value slots from the last one down
PutValueReversed(h, f, v) == WriteSlot(h, f.values, f.count - f.i, v)

\* values[i] = v (elements[i] = v); i++
PutValue(h, f, v) == WriteSlot(h, f.values, f.i + 1, v)

Advance(f) == [f EXCEPT !.i = @ + 1, !.step = LoopStep(f)]

Top == stack[Len(stack)]
Below == SubSeq(stack, 1, Len(stack) - 1)
SetTop(f) == [stack EXCEPT ![Len(stack)] = f]

\* the node the top frame converts next
Child(f) == IF f.kind = "table" THEN f.src[f.i + 1].v ELSE f.src[f.i + 1]

NoException == [kind |-> "none", origin |-> "none"]
BadAlloc(origin) == [kind |-> "bad_alloc", origin |-> origin]
ParseError == [kind |-> "parse_error", origin |-> "parser"]

\* an allocation fails under the converter: std::bad_alloc unwinds every
\* frame up to the handlers of ctoml_parse
Throw(origin) ==
    /\ stack' = <<>>
    /\ exc' = BadAlloc(origin)
    /\ faults' = faults + 1
    /\ pc' = "CatchException"

-----------------------------------------------------------------------------
(* CTomlParseResult. *)

\* const char* error_message: null, a pointer into storage the arena owns,
\* or a string literal
NullMsg == [seg |-> "null", at |-> NULL, lit |-> ""]
HeapMsg(p) == [seg |-> "heap", at |-> p, lit |-> ""]
StaticMsg(l) == [seg |-> "static", at |-> NULL, lit |-> l]

\* what() of std::bad_alloc: short enough to be held inside the std::string
\* object, so copying it allocates nothing
bad_alloc_what == <<98, 97, 100, 95, 97, 108, 108, 111, 99>>

\* ctoml_parse, before the try block; root.data is not assigned
InitialResult(raw) ==
    [success |-> FALSE,
     root |-> [type |-> CTOML_NONE, data |-> raw],
     error_message |-> NullMsg,
     error_line |-> 0,
     error_column |-> 0,
     handle |-> NULL]

\* the parse-error handler with line and column exchanged
parse_error_result_swapped(r, msg, err) ==
    [r EXCEPT !.error_message = msg,
              !.error_line = err.column,
              !.error_column = err.line,
              !.root.type = CTOML_NONE]

\* catch (const toml::parse_error& err): the fields of the result
parse_error_result(r, msg, err) ==
    [r EXCEPT !.error_message = msg,
              !.error_line = err.line,
              !.error_column = err.column,
              !.root.type = CTOML_NONE]

\* the handler without its else branch: no message when there is no arena
exception_result_no_fallback(r, e) ==
    [r EXCEPT !.error_message = IF r.handle # NULL THEN HeapMsg(r.handle) ELSE @,
              !.error_line = 0,
              !.error_column = 0,
              !.root.type = CTOML_NONE]

\* catch (const std::exception& err): the fields of the result
exception_result(r, e) ==
    [r EXCEPT !.error_message =
                 IF r.handle # NULL THEN HeapMsg(r.handle)
                 ELSE IF e.kind = "bad_alloc" THEN StaticMsg("Out of memory")
                 ELSE StaticMsg("Unknown error"),
              !.error_line = 0,
              !.error_column = 0,
              !.root.type = CTOML_NONE]

\* ctoml_free_result without result->handle = nullptr
free_result_keeps_handle(r, h, s) ==
    [heap |-> IF r.handle # NULL THEN DeleteTable(h, s, r.handle) ELSE h,
     result |-> [success |-> FALSE,
                 root |-> [type |-> CTOML_NONE, data |-> RawZero],
                 error_message |-> NullMsg,
                 error_line |-> 0,
                 error_column |-> 0,
                 handle |-> r.handle]]

\* ctoml_free_result that deletes the arena and clears nothing but the
\* handle and the success flag
free_result_keeps_pointers(r, h, s) ==
    [heap |-> IF r.handle # NULL THEN DeleteTable(h, s, r.handle) ELSE h,
     result |-> [r EXCEPT !.success = FALSE, !.handle = NULL]]

\* ctoml_free_result on a non-null result: the heap and the result after it
free_result(r, h, s) ==
    [heap |-> IF r.handle # NULL THEN DeleteTable(h, s, r.handle) ELSE h,
     result |-> [success |-> FALSE,
                 root |-> [type |-> CTOML_NONE, data |-> RawZero],
                 error_message |-> NullMsg,
                 error_line |-> 0,
                 error_column |-> 0,
                 handle |-> NULL]]

-----------------------------------------------------------------------------
(* The state machine. *)

Init ==
    /\ pc = "NotStarted"
    /\ result = InitialResult(RawZero)
    /\ storage = NewStorage
    /\ heap = <<>>
    /\ stack = <<>>
    /\ parsed = NotParsed
    /\ exc = NoException
    /\ faults = 0
    /\ frees = [result |-> 0, null |-> 0]

\* ctoml_parse up to the call of convert_table: the result is initialised,
\* the arena is created and the parser runs
ctoml_parse ==
    /\ pc = "NotStarted"
    /\ \E raw \in Indeterminate :
         \/ \* new CTomlTable() throws
            /\ faults < MaxFaults
            /\ result' = InitialResult(raw)
            /\ exc' = BadAlloc("new")
            /\ faults' = faults + 1
            /\ pc' = "CatchException"
            /\ UNCHANGED <<storage, heap, stack, parsed>>
         \/ \* toml::parse runs out of memory
            /\ faults < MaxFaults
            /\ heap' = Append(heap, Block("arena", <<>>, <<>>))
            /\ result' = [InitialResult(raw) EXCEPT !.handle = Len(heap) + 1]
            /\ storage' = NewStorage
            /\ exc' = BadAlloc("parser")
            /\ faults' = faults + 1
            /\ pc' = "CatchException"
            /\ UNCHANGED <<stack, parsed>>
         \/ \E out \in ParseOutcomes :
              /\ heap' = Append(heap, Block("arena", <<>>, <<>>))
              /\ result' = [InitialResult(raw) EXCEPT !.handle = Len(heap) + 1]
              /\ storage' = NewStorage
              /\ parsed' = out
              /\ IF out.kind = "table"
                 THEN /\ stack' = <<TableFrame(out.table)>>
                      /\ pc' = "Converting"
                      /\ exc' = NoException
                 ELSE /\ stack' = <<>>
                      /\ pc' = "CatchParseError"
                      /\ exc' = ParseError
              /\ UNCHANGED faults
    /\ UNCHANGED frees

\* convert_table: result.data.table_value.keys = storage->alloc_keys(count)
convert_table_keys ==
    /\ pc = "Converting"
    /\ Top.step = "alloc_keys"
    /\ \E fill \in {ZeroString, GarbageString}, fault \in AllocFaults(storage, Top.count) :
         LET a == alloc_keys(heap, storage, Top.count, fill, fault)
         IN  /\ heap' = a.heap
             /\ storage' = a.storage
             /\ IF a.throws
                THEN Throw("converter")
                ELSE /\ stack' = SetTop([Top EXCEPT !.keys = a.mem,
                                                    !.step = "alloc_values"])
                     /\ UNCHANGED <<exc, faults, pc>>
    /\ UNCHANGED <<result, parsed, frees>>

\* convert_table / convert_array: values (elements) = storage->alloc_nodes(count)
convert_alloc_nodes ==
    /\ pc = "Converting"
    /\ Top.step = "alloc_values"
    /\ \E fill \in {ZeroNode, GarbageNode}, fault \in AllocFaults(storage, Top.count) :
         LET a == alloc_nodes(heap, storage, Top.count, fill, fault)
         IN  /\ heap' = a.heap
             /\ storage' = a.storage
             /\ IF a.throws
                THEN Throw("converter")
                ELSE /\ stack' = SetTop([Top EXCEPT !.values = a.mem,
                                                    !.step = LoopStep(Top)])
                     /\ UNCHANGED <<exc, faults, pc>>
    /\ UNCHANGED <<result, parsed, frees>>

\* convert_table's loop: keys[i] = storage->store_string(std::string(k))
convert_table_key ==
    /\ pc = "Converting"
    /\ Top.step = "key"
    /\ Top.i < Top.count
    /\ \/ /\ faults < MaxFaults
          /\ Throw("converter")
          /\ UNCHANGED <<heap, storage>>
       \/ LET r == store_string(heap, storage, Top.src[Top.i + 1].k)
          IN  /\ heap' = WriteSlot(r.heap, Top.keys, Top.i + 1, r.str)
              /\ storage' = r.storage
              /\ stack' = SetTop([Top EXCEPT !.step = "value"])
              /\ UNCHANGED <<exc, faults, pc>>
    /\ UNCHANGED <<result, parsed, frees>>

\* convert_array's loop when arr.get(i) is null: the element is a none node
convert_array_absent ==
    /\ pc = "Converting"
    /\ Top.step = "value"
    /\ Top.i < Top.count
    /\ Child(Top).t = "absent"
    /\ heap' = PutValue(heap, Top, none_node)
    /\ stack' = SetTop(Advance(Top))
    /\ UNCHANGED <<pc, result, storage, parsed, exc, faults, frees>>

\* convert_node on a string: the bytes are stored in the arena
convert_node_string ==
    /\ pc = "Converting"
    /\ Top.step = "value"
    /\ Top.i < Top.count
    /\ Child(Top).t = "string"
    /\ \/ /\ faults < MaxFaults
          /\ Throw("converter")
          /\ UNCHANGED <<heap, storage>>
       \/ LET r == store_string(heap, storage, Child(Top).v)
          IN  /\ heap' = PutValue(r.heap, Top, string_node(r.str))
              /\ storage' = r.storage
              /\ stack' = SetTop(Advance(Top))
              /\ UNCHANGED <<exc, faults, pc>>
    /\ UNCHANGED <<result, parsed, frees>>

\* convert_node on any other node that is not an array or a table
convert_node_scalar ==
    /\ pc = "Converting"
    /\ Top.step = "value"
    /\ Top.i < Top.count
    /\ Child(Top).t \notin {"absent", "string", "array", "table"}
    /\ \E raw \in Indeterminate :
         heap' = PutValue(heap, Top, convert_scalar(Child(Top), raw))
    /\ stack' = SetTop(Advance(Top))
    /\ UNCHANGED <<pc, result, storage, parsed, exc, faults, frees>>

\* convert_node on an array or a table: convert_array / convert_table is entered
convert_node_descend ==
    /\ pc = "Converting"
    /\ Top.step = "value"
    /\ Top.i < Top.count
    /\ Child(Top).t \in {"array", "table"}
    /\ stack' = Append(SetTop([Top EXCEPT !.step = "call"]),
                       IF Child(Top).t = "table" THEN TableFrame(Child(Top))
                       ELSE ArrayFrame(Child(Top)))
    /\ UNCHANGED <<pc, result, storage, heap, parsed, exc, faults, frees>>

\* convert_table / convert_array returns: to the caller's values[i], or to
\* ctoml_parse, which sets root and success and returns
convert_return ==
    /\ pc = "Converting"
    /\ Top.step \in {"key", "value"}
    /\ Top.i = Top.count
    /\ IF Len(stack) = 1
       THEN /\ result' = [result EXCEPT !.root = FrameResult(Top), !.success = TRUE]
            /\ stack' = <<>>
            /\ pc' = "Returned"
            /\ UNCHANGED heap
       ELSE LET caller == stack[Len(stack) - 1]
            IN  /\ heap' = PutValue(heap, caller, FrameResult(Top))
                /\ stack' = [Below EXCEPT ![Len(stack) - 1] = Advance(caller)]
                /\ UNCHANGED <<result, pc>>
    /\ UNCHANGED <<storage, parsed, exc, faults, frees>>

\* catch (const toml::parse_error& err): the description is copied into the
\* arena; the copy allocates and may itself fail, inside the handler
catch_parse_error ==
    /\ pc = "CatchParseError"
    /\ \/ /\ result.handle # NULL
          /\ faults < MaxFaults
          /\ exc' = BadAlloc("handler")
          /\ faults' = faults + 1
          /\ pc' = "Escaped"
          /\ UNCHANGED <<result, storage, heap>>
       \/ /\ IF result.handle # NULL
             THEN /\ heap' = Append(heap, Block("error_message", <<>>,
                                                CStr(parsed.description)))
                  /\ storage' = [storage EXCEPT !.error_message =
                                    [text |-> parsed.description, buf |-> Len(heap) + 1]]
                  /\ result' = parse_error_result(result, HeapMsg(Len(heap) + 1), parsed)
             ELSE /\ result' = parse_error_result(result, result.error_message, parsed)
                  /\ UNCHANGED <<storage, heap>>
          /\ exc' = NoException
          /\ pc' = "Returned"
          /\ UNCHANGED faults
    /\ UNCHANGED <<stack, parsed, frees>>

\* catch (const std::exception& err).  Everything thrown under the try block
\* is a toml::parse_error or a std::bad_alloc, so catch (...) is never entered.
catch_exception ==
    /\ pc = "CatchException"
    /\ result' = exception_result(result, exc)
    /\ storage' = IF result.handle # NULL
                  THEN [storage EXCEPT !.error_message =
                          [text |-> bad_alloc_what, buf |-> result.handle]]
                  ELSE storage
    /\ exc' = NoException
    /\ pc' = "Returned"
    /\ UNCHANGED <<heap, stack, parsed, faults, frees>>

\* ctoml_free_result(&result)
ctoml_free_result ==
    /\ pc = "Returned"
    /\ frees.result < MaxTeardowns
    /\ LET e == free_result(result, heap, storage)
       IN  /\ heap' = e.heap
           /\ result' = e.result
    /\ frees' = [frees EXCEPT !.result = @ + 1]
    /\ UNCHANGED <<pc, storage, stack, parsed, exc, faults>>

\* ctoml_free_result(NULL): returns at once
ctoml_free_result_null ==
    /\ pc \in {"NotStarted", "Returned"}
    /\ frees.null < MaxNullCalls
    /\ frees' = [frees EXCEPT !.null = @ + 1]
    /\ UNCHANGED <<pc, result, storage, heap, stack, parsed, exc, faults>>

Next ==
    \/ ctoml_parse
    \/ convert_table_keys
    \/ convert_alloc_nodes
    \/ convert_table_key
    \/ convert_array_absent
    \/ convert_node_string
    \/ convert_node_scalar
    \/ convert_node_descend
    \/ convert_return
    \/ catch_parse_error
    \/ catch_exception
    \/ ctoml_free_result
    \/ ctoml_free_result_null

Spec == Init /\ [][Next]_vars

-----------------------------------------------------------------------------
(* What the properties below read. *)

Range(q) == { q[k] : k \in DOMAIN q }

\* the arena result.handle names has not been destroyed
ArenaAlive == result.handle # NULL /\ Live(heap, result.handle)

\* storage the arena owns: tracked allocations, the list's strings, the message
Owned == Range(storage.allocations) \cup Range(storage.strings)
            \cup ({storage.error_message.buf} \ {NULL})

\* ctoml_parse has returned and the result has not been torn down
Fresh == pc = "Returned" /\ frees.result = 0

\* every pointer stored in or under a CTomlNode
RECURSIVE NodePointers(_, _)
NodePointers(h, n) ==
    CASE n.type = CTOML_STRING -> {n.data.string_value.data}
      [] n.type = CTOML_ARRAY ->
           LET a == n.data.array_value
           IN  IF a.elements \in 1..Len(h)
               THEN {a.elements} \cup
                    UNION { NodePointers(h, h[a.elements].slots[j]) :
                              j \in DOMAIN h[a.elements].slots }
               ELSE {a.elements} \ {NULL}
      [] n.type = CTOML_TABLE ->
           LET t == n.data.table_value
           IN  (IF t.keys \in 1..Len(h)
                THEN {t.keys} \cup
                     { h[t.keys].slots[j].data : j \in DOMAIN h[t.keys].slots }
                ELSE {t.keys} \ {NULL})
               \cup
               (IF t.values \in 1..Len(h)
                THEN {t.values} \cup
                     UNION { NodePointers(h, h[t.values].slots[j]) :
                               j \in DOMAIN h[t.values].slots }
                ELSE {t.values} \ {NULL})
      [] OTHER -> {}

ResultPointers ==
    NodePointers(heap, result.root)
    \cup (IF result.error_message.seg = "heap" THEN {result.error_message.at} ELSE {})

\* the bytes a consumer reads through a CTomlString: length bytes from data
ReadString(h, str) ==
    IF str.data \in 1..Len(h) /\ str.length \in 0..Len(h[str.data].bytes)
    THEN SubSeq(h[str.data].bytes, 1, str.length)
    ELSE <<-1>>

NoneTree == [t |-> "none", v |-> 0]
BadTree == [t |-> "bad", v |-> 0]

\* the tree a consumer reads from a CTomlNode
RECURSIVE ReadNode(_, _)
ReadNode(h, n) ==
    CASE n.type = CTOML_NONE -> NoneTree
      [] n.type = CTOML_STRING -> NString(ReadString(h, n.data.string_value))
      [] n.type = CTOML_INTEGER -> NInteger(n.data.integer_value)
      [] n.type = CTOML_FLOAT -> NFloat(n.data.float_value)
      [] n.type = CTOML_BOOLEAN -> NBoolean(n.data.boolean_value)
      [] n.type = CTOML_DATE -> [t |-> "date", v |-> n.data.date_value]
      [] n.type = CTOML_TIME -> [t |-> "time", v |-> n.data.time_value]
      [] n.type = CTOML_DATETIME ->
           LET d == n.data.datetime_value
           IN  [t |-> "date_time",
                v |-> [date |-> d.date, time |-> d.time,
                       has_offset |-> d.has_offset, minutes |-> d.offset_minutes]]
      [] n.type = CTOML_ARRAY ->
           LET a == n.data.array_value
           IN  IF a.count = 0 THEN NArray(<<>>)
               ELSE IF a.elements \in 1..Len(h)
                       /\ DOMAIN h[a.elements].slots = 1..a.count
               THEN NArray([j \in 1..a.count |-> ReadNode(h, h[a.elements].slots[j])])
               ELSE BadTree
      [] n.type = CTOML_TABLE ->
           LET t == n.data.table_value
           IN  IF t.count = 0 THEN NTable(<<>>)
               ELSE IF t.keys \in 1..Len(h) /\ t.values \in 1..Len(h)
                       /\ DOMAIN h[t.keys].slots = 1..t.count
                       /\ DOMAIN h[t.values].slots = 1..t.count
               THEN NTable([j \in 1..t.count |->
                              Entry(ReadString(h, h[t.keys].slots[j]),
                                    ReadNode(h, h[t.values].slots[j]))])
               ELSE BadTree
      [] OTHER -> BadTree

\* the source tree as the flattened tree is to show it: absent elements and
\* unrecognized nodes are none, a date-time without offset has offset 0
RECURSIVE Expected(_)
Expected(node) ==
    CASE node.t \in {"absent", "unknown"} -> NoneTree
      [] node.t = "date_time" ->
           [node EXCEPT !.v.minutes = IF node.v.has_offset THEN @ ELSE 0]
      [] node.t = "array" -> NArray([j \in DOMAIN node.v |-> Expected(node.v[j])])
      [] node.t = "table" ->
           NTable([j \in DOMAIN node.v |-> Entry(node.v[j].k, Expected(node.v[j].v))])
      [] OTHER -> node

\* every slot of every array under a CTomlNode has been assigned
RECURSIVE AllWritten(_, _)
AllWritten(h, n) ==
    CASE n.type = CTOML_ARRAY ->
           LET a == n.data.array_value
           IN  a.count > 0 =>
                 /\ a.elements \in 1..Len(h)
                 /\ h[a.elements].written = 1..a.count
                 /\ \A j \in DOMAIN h[a.elements].slots :
                       AllWritten(h, h[a.elements].slots[j])
      [] n.type = CTOML_TABLE ->
           LET t == n.data.table_value
           IN  t.count > 0 =>
                 /\ t.keys \in 1..Len(h) /\ t.values \in 1..Len(h)
                 /\ h[t.keys].written = 1..t.count
                 /\ h[t.values].written = 1..t.count
                 /\ \A j \in DOMAIN h[t.values].slots :
                       AllWritten(h, h[t.values].slots[j])
      [] OTHER -> TRUE

-----------------------------------------------------------------------------
(* The claims. *)

NoDoubleFree(h) == \A p \in 1..Len(h) : h[p].frees <= 1

\* C1: over any sequence of ctoml_free_result calls on one result the arena
\* is destroyed at most once: the first call destroys it (when there is one)
\* and leaves success false and handle null; every later call, and a call
\* on a null result pointer, frees nothing and leaves the result unchanged.
C1_TeardownAtMostOnce ==
    [][ /\ NoDoubleFree(heap')
        /\ frees'.result >= 1 => (result'.handle = NULL /\ result'.success = FALSE)
        /\ (frees.result = 0 /\ frees'.result = 1 /\ result.handle # NULL)
              => heap'[result.handle].frees = 1
        /\ (frees.result >= 1 /\ frees'.result = frees.result + 1)
              => (result' = result /\ heap' = heap)
        /\ frees'.null # frees.null => (result' = result /\ heap' = heap)
      ]_vars

C1_Witness ==
    /\ frees.result = 3
    /\ frees.null = 1
    /\ parsed.kind = "table"
    /\ Len(heap) > 3
    /\ heap[1].frees = 1

\* C2: when the parser reports a syntax error (and no allocation fails in
\* the handler) ctoml_parse returns, and the returned result has success false, a non-empty message that is the arena's own copy of the
\* parser's description, the line and column the parser reported (both at
\* least 1) and a none root.
C2_ParseErrorReported ==
    /\ (parsed.kind = "parse_error" /\ faults = 0) =>
          pc \in {"CatchParseError", "Returned"}
    /\ (Fresh /\ parsed.kind = "parse_error") =>
        /\ result.success = FALSE
        /\ result.error_message.seg = "heap"
        /\ ArenaAlive
        /\ result.error_message.at = storage.error_message.buf
        /\ result.error_message.at # result.handle
        /\ Live(heap, result.error_message.at)
        /\ heap[result.error_message.at].bytes = CStr(parsed.description)
        /\ Len(parsed.description) > 0
        /\ result.error_line = parsed.line
        /\ result.error_column = parsed.column
        /\ result.error_line >= 1
        /\ result.error_column >= 1
        /\ result.root.type = CTOML_NONE

C2_Witness ==
    /\ Fresh
    /\ parsed.kind = "parse_error"
    /\ parsed.line = 1
    /\ parsed.column = 2

\* C3: no fault crosses ctoml_parse: with one allocation failure at any
\* allocation point ctoml_parse still returns, with success false.
C3_NoFaultCrosses ==
    /\ pc # "Escaped"
    /\ (pc = "Returned" /\ faults > 0 /\ frees.result = 0) => result.success = FALSE

\* C4: when ctoml_parse fails for a reason other than a parse error, the
\* result has success false, a non-null generic message, line 0, column 0
\* and a none root; nothing of the partly built tree is in the result.
C4_OtherFailureReported ==
    (Fresh /\ result.success = FALSE /\ parsed.kind # "parse_error") =>
        /\ \/ /\ result.handle = NULL
              /\ result.error_message \in {StaticMsg("Out of memory"),
                                           StaticMsg("Unknown error")}
           \/ /\ ArenaAlive
              /\ result.error_message = HeapMsg(storage.error_message.buf)
              /\ storage.error_message.buf \in Owned \cup {result.handle}
              /\ storage.error_message.text = bad_alloc_what
        /\ result.error_line = 0
        /\ result.error_column = 0
        /\ result.root.type = CTOML_NONE
        /\ result.root.data \in Indeterminate
        /\ NodePointers(heap, result.root) = {}

C4_Witness ==
    /\ Fresh
    /\ result.success = FALSE
    /\ parsed.kind = "table"
    /\ Len(storage.strings) >= 2
    /\ Len(storage.allocations) >= 3

\* C5: after ctoml_parse and exactly one ctoml_free_result, every block
\* obtained during ctoml_parse has been released exactly once.
C5_ReleasedExactlyOnce ==
    (pc = "Returned" /\ frees.result = 1) =>
        \A p \in 1..Len(heap) : heap[p].frees = 1

\* C6: before teardown every pointer stored in the result refers to live
\* storage owned by the arena result.handle names; after teardown the
\* result stores no pointer at all: handle and error_message null, root none
\* with zeroed data, success false, line and column 0.
C6_PointersIntoLiveArena ==
    pc = "Returned" =>
        IF frees.result = 0
        THEN /\ ResultPointers # {} => ArenaAlive
             /\ \A p \in ResultPointers :
                   /\ Live(heap, p)
                   /\ p \in Owned \cup {result.handle}
        ELSE /\ result.handle = NULL
             /\ result.error_message = NullMsg
             /\ result.root = [type |-> CTOML_NONE, data |-> RawZero]
             /\ result.success = FALSE
             /\ result.error_line = 0
             /\ result.error_column = 0

C6_Witness ==
    /\ Fresh
    /\ result.success
    /\ Cardinality(ResultPointers) >= 6

\* C7: when the parser succeeds and no allocation fails, ctoml_parse returns
\* success with a table root; at every depth a table keeps the count, the
\* keys and the converted values of the source table in its iteration order,
\* an array keeps the count and the converted elements by index, and every
\* allocated slot has been written.
C7_CountAndOrderKept ==
    /\ (Fresh /\ parsed.kind = "table" /\ faults = 0) => result.success
    /\ (Fresh /\ result.success) =>
          /\ parsed.kind = "table"
          /\ result.root.type = CTOML_TABLE
          /\ result.root.data.table_value.count = Len(parsed.table.v)
          /\ ReadNode(heap, result.root) = Expected(parsed.table)
          /\ AllWritten(heap, result.root)

C7_Witness ==
    /\ Fresh
    /\ result.success
    /\ Len(parsed.table.v) = 3
    /\ parsed.table.v[1].v.t = "array"
    /\ Len(parsed.table.v[1].v.v) = 3

\* the bytes of the string the step in progress stores
StoredSource == IF Top.step = "key" THEN Top.src[Top.i + 1].k ELSE Child(Top).v

\* the CTomlString the step in progress wrote
StoredString(h) ==
    IF Top.step = "key" THEN h[Top.keys].slots[Top.i + 1]
    ELSE h[Top.values].slots[Top.i + 1].data.string_value

\* C8: a string returned by store_string has the length of its source in
\* bytes and holds exactly those bytes, zero bytes included; while the
\* arena is alive it stays at its address with the same bytes across every
\* later store_string, alloc_nodes and alloc_keys.
C8_StringsStable ==
    [][ /\ Len(storage'.strings) = Len(storage.strings) + 1 =>
              LET str == StoredString(heap')
              IN  /\ str.data = storage'.strings[Len(storage'.strings)]
                  /\ str.length = Len(StoredSource)
                  /\ ReadString(heap', str) = StoredSource
        /\ (result'.handle # NULL /\ Live(heap', result'.handle)) =>
              \A k \in DOMAIN storage.strings :
                  /\ storage'.strings[k] = storage.strings[k]
                  /\ heap'[storage.strings[k]] = heap[storage.strings[k]]
                  /\ Live(heap', storage.strings[k])
      ]_vars

C8_Witness ==
    /\ ArenaAlive
    /\ Len(storage.strings) = 3
    /\ heap[storage.strings[1]].bytes = <<97, 0, 98, 0>>
    /\ heap[storage.strings[2]].bytes = <<120, 0, 121, 0>>
    /\ Len(storage.allocations) = 2

\* the tag convert_node gives a source node
TagOf(node) ==
    CASE node.t = "string" -> CTOML_STRING
      [] node.t = "integer" -> CTOML_INTEGER
      [] node.t = "float" -> CTOML_FLOAT
      [] node.t = "boolean" -> CTOML_BOOLEAN
      [] node.t = "date" -> CTOML_DATE
      [] node.t = "time" -> CTOML_TIME
      [] node.t = "date_time" -> CTOML_DATETIME
      [] node.t = "array" -> CTOML_ARRAY
      [] node.t = "table" -> CTOML_TABLE
      [] OTHER -> CTOML_NONE

FrameChild(f, j) == IF f.kind = "table" THEN f.src[j].v ELSE f.src[j]

\* every child a frame has converted so far sits in its slot with the tag of
\* its source node, none for an absent or unrecognized one
ConvertedSoFar(f) ==
    \A j \in 1..f.i : heap[f.values].slots[j].type = TagOf(FrameChild(f, j))

\* C9 as stated: no failure ever leaves the tree converter.
C9_NeverSignalsFailure == exc.origin # "converter"

\* C9 as amended: the converter has no cannot-convert path: every node it has
\* converted is a flattened node with the tag of its source, none for an
\* absent element or an unrecognized node; the one failure that leaves the
\* converter is std::bad_alloc after an allocation of the arena failed.
C9_TotalUpToAllocationFailure ==
    /\ exc.origin = "converter" => (exc.kind = "bad_alloc" /\ faults > 0)
    /\ \A k \in DOMAIN stack : ConvertedSoFar(stack[k])
    /\ (Fresh /\ parsed.kind = "table" /\ faults = 0) =>
          /\ result.success
          /\ ReadNode(heap, result.root) = Expected(parsed.table)

C9_Witness ==
    /\ pc = "Converting"
    /\ Top.kind = "array"
    /\ Top.i = 2
    /\ Top.src[2] = Absent
    /\ heap[Top.values].slots[2] = none_node

\* what alloc_keys / alloc_nodes returned to a frame is as the contract says
AllocatedAsAsked(f) ==
    /\ (f.kind = "table" /\ f.step # "alloc_keys") =>
          IF f.count = 0 THEN f.keys = NULL
          ELSE /\ f.keys \in Range(storage.allocations)
               /\ heap[f.keys].kind = "keys"
               /\ DOMAIN heap[f.keys].slots = 1..f.count
    /\ f.step \notin {"alloc_keys", "alloc_values"} =>
          IF f.count = 0 THEN f.values = NULL
          ELSE /\ f.values \in Range(storage.allocations)
               /\ heap[f.values].kind = "nodes"
               /\ DOMAIN heap[f.values].slots = 1..f.count

TrackedSound ==
    /\ \A k \in DOMAIN storage.allocations :
          /\ storage.allocations[k] \in 1..Len(heap)
          /\ heap[storage.allocations[k]].kind \in {"nodes", "keys"}
          /\ heap[storage.allocations[k]].slots # <<>>
          /\ ArenaAlive => Live(heap, storage.allocations[k])
          /\ \A m \in DOMAIN storage.allocations :
                storage.allocations[m] = storage.allocations[k] => m = k
    /\ \A k \in DOMAIN stack : AllocatedAsAsked(stack[k])

\* C10 as stated: the storage alloc_nodes / alloc_keys return is zero-initialized.
C10_ZeroInitialized ==
    \A k \in DOMAIN storage.allocations :
        LET b == heap[storage.allocations[k]]
        IN  \A j \in DOMAIN b.slots \ b.written :
                b.slots[j] = IF b.kind = "keys" THEN ZeroString ELSE ZeroNode

\* C10 as amended: alloc_nodes(count) and alloc_keys(count) return, for
\* count > 0, storage of exactly count slots (contents unspecified until
\* written) appended to the tracked allocations, and for count = 0 null,
\* tracking nothing; no tracked allocation is removed, or freed before the
\* arena is destroyed.
C10_AllocationsTracked ==
    [][ /\ TrackedSound'
        /\ Len(storage'.allocations) >= Len(storage.allocations)
        /\ SubSeq(storage'.allocations, 1, Len(storage.allocations))
              = storage.allocations
        /\ (pc = "Converting" /\ Top.step \in {"alloc_keys", "alloc_values"}
              /\ pc' = "Converting") =>
                 Len(storage'.allocations) =
                    Len(storage.allocations) + (IF Top.count > 0 THEN 1 ELSE 0)
      ]_vars

C10_Witness ==
    /\ pc = "Converting"
    /\ Len(stack) = 3
    /\ Top.kind = "array"
    /\ Top.count = 0
    /\ Top.step = "value"
    /\ Top.values = NULL
    /\ Len(storage.allocations) = 5

====
